---- MODULE Spec2Model ----
(***************************************************************************)
(* The ImageViewer widget of src/ImageView.py as a state machine: the view *)
(* transform (zoom, anchor point, target point), the two gesture flags,    *)
(* the pending pinch scale, the surface and the widget's size request,     *)
(* with one action per public method and one for the draw callback.        *)
(*                                                                         *)
(* Python numbers are modelled as exact rationals <<n, d>> (d > 0, lowest  *)
(* terms); int() truncates towards zero.  An optional value (Python None)  *)
(* is the empty sequence, a present value x is <<x>>.                      *)
(***************************************************************************)
EXTENDS Integers, Sequences, FiniteSets, TLC

----------------------------------------------------------------------------
(* Bounds of the model. *)

\* Number of method calls / draw callbacks explored in one run.
MaxSteps == 5

----------------------------------------------------------------------------
(* Exact arithmetic. *)

Abs(n) == IF n < 0 THEN -n ELSE n

RECURSIVE GCD(_, _)
GCD(a, b) == IF b = 0 THEN a ELSE GCD(b, a % b)

\* The rational n/d in lowest terms with a positive denominator (d # 0).
Norm(n, d) ==
    LET g == GCD(Abs(n), Abs(d))
        s == IF d < 0 THEN -1 ELSE 1
    IN  <<(s * n) \div g, (s * d) \div g>>

R(n) == <<n, 1>>

RAdd(a, b) == Norm(a[1] * b[2] + b[1] * a[2], a[2] * b[2])
RSub(a, b) == Norm(a[1] * b[2] - b[1] * a[2], a[2] * b[2])
RMul(a, b) == Norm(a[1] * b[1], a[2] * b[2])
RDiv(a, b) == Norm(a[1] * b[2], a[2] * b[1])
RLt(a, b) == a[1] * b[2] < b[1] * a[2]
RLe(a, b) == a[1] * b[2] <= b[1] * a[2]
RMin(a, b) == IF RLt(b, a) THEN b ELSE a

\* Python's int(x): truncation towards zero.
RTrunc(a) == IF a[1] >= 0 THEN a[1] \div a[2] ELSE -((-a[1]) \div a[2])

None == << >>
Some(x) == <<x>>
Val(o) == o[1]

----------------------------------------------------------------------------
(* Program constants (lines 27-29). *)

ZOOM_STEP == <<1, 20>>
ZOOM_MAX == <<4, 1>>
ZOOM_MIN == <<1, 20>>

----------------------------------------------------------------------------
(* The environment: image files, the parent's allocation, gesture inputs.  *)

\* Image files and the pixel size GdkPixbuf decodes each to: "a" fits the
\* allocation below as loaded and exceeds it once rotated, "b" is more than
\* twenty times wider than the allocation.
Paths == {"a", "b"}
ImageSize(p) == IF p = "a" THEN [w |-> 5, h |-> 2] ELSE [w |-> 130, h |-> 2]

\* The allocation get_parent().get_allocation() returns.
Allocations == { [x |-> 1, y |-> 1, width |-> 6, height |-> 3] }

\* Touch positions: coords[1], coords[2] (and center[1], center[2]).
Coords == { <<3, 1>>, <<0, 2>> }

\* Scale factors a pinch gesture reports.
Scales == { <<1, 2>>, <<5, 1>> }

\* Arguments of set_zoom: below, at and above the two limits.
ZoomArgs == { <<1, 50>>, <<1, 20>>, <<4, 1>>, <<5, 1>> }

\* How the interpreter divides two ints with "/": Python 2 floors,
\* Python 3 divides exactly.
Divisions == {"floor", "true"}

----------------------------------------------------------------------------
VARIABLES
    file_location,    \* self._file_location: None or a path
    surface,          \* self._surface: None or [w, h, src, rot]
    zoom,             \* self._zoom: None or a rational
    target_point,     \* self._target_point: None or <<x, y>>
    anchor_point,     \* self._anchor_point: None or <<x, y>>
    in_dragtouch,     \* self._in_dragtouch
    in_zoomtouch,     \* self._in_zoomtouch
    zoomtouch_scale,  \* self._zoomtouch_scale
    size_request,     \* last set_size_request(width, height), None if none
    redraw_queued,    \* queue_draw() called since the last draw
    alloc,            \* the parent's allocation
    division,         \* the interpreter's int / int
    last,             \* the last call: its name, arguments, whether it raised
    steps             \* number of calls so far

vars == <<file_location, surface, zoom, target_point, anchor_point,
          in_dragtouch, in_zoomtouch, zoomtouch_scale, size_request,
          redraw_queued, alloc, division, last, steps>>

\* The widget's own fields and its size request.
widget == <<file_location, surface, zoom, target_point, anchor_point,
            in_dragtouch, in_zoomtouch, zoomtouch_scale, size_request>>

Call(op, arg, raised) == [op |-> op, arg |-> arg, raised |-> raised]

\* Every call is counted; the environment does not change during a run.
Step(op, arg, raised) ==
    /\ steps < MaxSteps
    /\ steps' = steps + 1
    /\ last' = Call(op, arg, raised)
    /\ UNCHANGED <<alloc, division>>

Init ==
    /\ file_location = None
    /\ surface = None
    /\ zoom = None
    /\ target_point = None
    /\ anchor_point = None
    /\ in_dragtouch = FALSE
    /\ in_zoomtouch = FALSE
    /\ zoomtouch_scale = R(1)
    /\ size_request = None
    /\ redraw_queued = FALSE
    /\ alloc \in Allocations
    /\ division \in Divisions
    /\ last = Call("__init__", << >>, FALSE)
    /\ steps = 0

----------------------------------------------------------------------------
(* Helpers of the widget. *)

\* n / 2 for an int n (lines 85, 88-89).
Half(n) == IF division = "floor" THEN R(n \div 2) ELSE Norm(n, 2)

\* _center_target_point: the centre of the parent's allocation.
CenterTarget == <<Half(alloc.width), Half(alloc.height)>>

\* _center_anchor_point: the centre of surface s.
CenterAnchor(s) == <<Half(s.w), Half(s.h)>>

\* The test of _center_if_small: surface s at zoom z fits the allocation.
IsSmall(s, z) ==
    /\ RLe(RMul(R(s.w), z), R(alloc.width))
    /\ RLe(RMul(R(s.h), z), R(alloc.height))

\* The size _do_set_zoom requests for surface s at zoom z.
SizeRequest(s, z) == <<RTrunc(RMul(R(s.w), z)), RTrunc(RMul(R(s.h), z))>>

\* A set_zoom whose limits are exclusive.
InRangeExclusive(z) == RLt(ZOOM_MIN, z) /\ RLt(z, ZOOM_MAX)

\* The test of set_zoom: zoom z is accepted.
InRange(z) == ~(RLt(z, ZOOM_MIN) \/ RLt(ZOOM_MAX, z))

\* A can_zoom_in that lets the zoom reach ZOOM_MAX.
can_zoom_in_inclusive(z) == RLe(RAdd(z, ZOOM_STEP), ZOOM_MAX)

can_zoom_in(z) == RLt(RAdd(z, ZOOM_STEP), ZOOM_MAX)
can_zoom_out(z) == RLt(ZOOM_MIN, RSub(z, ZOOM_STEP))

\* A restriction that forgets the lower limit.
RestrictAboveOnly(z) == IF RLt(ZOOM_MAX, z) THEN ZOOM_MAX ELSE z

\* "Restrict zoom values" in finish_zoomtouch.
Restrict(z) ==
    IF RLt(z, ZOOM_MIN) THEN ZOOM_MIN
    ELSE IF RLt(ZOOM_MAX, z) THEN ZOOM_MAX
    ELSE z

\* A zoom_to_fit that takes the larger of the two ratios.
FitZoomByMax(s) ==
    IF alloc.width < s.w \/ alloc.height < s.h
    THEN IF RLt(Norm(alloc.width, s.w), Norm(alloc.height, s.h))
         THEN Norm(alloc.height, s.h) ELSE Norm(alloc.width, s.w)
    ELSE R(1)

\* The zoom zoom_to_fit picks for surface s.
FitZoom(s) ==
    IF alloc.width < s.w \/ alloc.height < s.h
    THEN RMin(Norm(alloc.width, s.w), Norm(alloc.height, s.h))
    ELSE R(1)

\* The anchor start_dragtouch and start_zoomtouch compute: prev is the
\* previous target point, a the previous anchor, z the zoom, t the new
\* target point.
NewAnchor(prev, a, z, t) ==
    LET prev_anchor_scaled == <<RMul(a[1], z), RMul(a[2], z)>>
        scaled_image_topleft == <<RSub(prev[1], prev_anchor_scaled[1]),
                                  RSub(prev[2], prev_anchor_scaled[2])>>
        anchor_scaled == <<RSub(t[1], scaled_image_topleft[1]),
                           RSub(t[2], scaled_image_topleft[2])>>
    IN  <<R(RTrunc(RDiv(anchor_scaled[1], z))),
          R(RTrunc(RDiv(anchor_scaled[2], z)))>>

\* _surface_from_file: the surface holding the image of file p.
SurfaceFromFile(p) ==
    [w |-> ImageSize(p).w, h |-> ImageSize(p).h, src |-> p, rot |-> 0]

\* _rotate_surface: the new surface is H x W; rot counts clockwise
\* quarter turns of the content.
RotateSurface(s, direction) ==
    [w |-> s.h, h |-> s.w, src |-> s.src, rot |-> (s.rot + direction) % 4]

\* Where _rotate_surface paints the point p of surface s: translate, then
\* rotate by direction * pi / 2, which takes (x, y) to (-y, x) for
\* direction 1 and to (y, -x) for direction -1.
RotatePoint(s, direction, p) ==
    IF direction = 1
    THEN <<RSub(R(s.h), p[2]), p[1]>>
    ELSE <<p[2], RSub(R(s.w), p[1])>>

\* A rotate_clockwise that reads the rotated surface's height.
ClockwiseAnchorByHeight(s, a) == <<RSub(R(s.h), a[2]), a[1]>>

\* The anchor rotate_clockwise sets, s being the rotated surface.
ClockwiseAnchor(s, a) == <<RSub(R(s.w), a[2]), a[1]>>

\* The anchor rotate_anticlockwise sets, s being the rotated surface.
AnticlockwiseAnchor(s, a) == <<a[2], RSub(R(s.h), a[1])>>

----------------------------------------------------------------------------
(* The methods.  A method that raises keeps the assignments it made before *)
(* the exception: GTK reports the exception and the widget lives on.       *)

\* _do_set_zoom(zoom) with self._surface = so: the zoom is assigned first;
\* with no surface the size computation raises AttributeError and no size is
\* requested.
DoSetZoom(so, z) ==
    /\ zoom' = Some(z)
    /\ size_request' = IF so = None THEN size_request
                       ELSE Some(SizeRequest(Val(so), z))

\* _center_if_small at zoom z (with a surface): the target point, the
\* anchor point and the redraw request it leaves.
SmallTarget(z) ==
    IF IsSmall(Val(surface), z) THEN Some(CenterTarget) ELSE target_point

SmallAnchor(z) ==
    IF IsSmall(Val(surface), z) THEN Some(CenterAnchor(Val(surface)))
    ELSE anchor_point

SmallQueued(z) == IsSmall(Val(surface), z) \/ redraw_queued

set_file_location ==
    \E p \in Paths :
        /\ file_location' = Some(p)
        /\ redraw_queued' = TRUE
        /\ UNCHANGED <<surface, zoom, target_point, anchor_point, in_dragtouch,
                       in_zoomtouch, zoomtouch_scale, size_request>>
        /\ Step("set_file_location", <<p>>, FALSE)

set_zoom ==
    \E z \in ZoomArgs :
        IF ~InRange(z)
        THEN /\ UNCHANGED <<widget, redraw_queued>>
             /\ Step("set_zoom", <<z>>, FALSE)
        ELSE /\ DoSetZoom(surface, z)
             /\ UNCHANGED <<file_location, surface, target_point, anchor_point,
                            in_dragtouch, in_zoomtouch, zoomtouch_scale,
                            redraw_queued>>
             /\ Step("set_zoom", <<z>>, surface = None)

\* zoom_in: can_zoom_in raises TypeError while the zoom is None.
zoom_in ==
    IF zoom = None
    THEN /\ UNCHANGED <<widget, redraw_queued>>
         /\ Step("zoom_in", << >>, TRUE)
    ELSE IF ~can_zoom_in(Val(zoom))
    THEN /\ UNCHANGED <<widget, redraw_queued>>
         /\ Step("zoom_in", << >>, FALSE)
    ELSE /\ DoSetZoom(surface, RAdd(Val(zoom), ZOOM_STEP))
         /\ UNCHANGED <<file_location, surface, target_point, anchor_point,
                        in_dragtouch, in_zoomtouch, zoomtouch_scale,
                        redraw_queued>>
         /\ Step("zoom_in", << >>, surface = None)

zoom_out ==
    IF zoom = None
    THEN /\ UNCHANGED <<widget, redraw_queued>>
         /\ Step("zoom_out", << >>, TRUE)
    ELSE IF ~can_zoom_out(Val(zoom))
    THEN /\ UNCHANGED <<widget, redraw_queued>>
         /\ Step("zoom_out", << >>, FALSE)
    ELSE LET z == RSub(Val(zoom), ZOOM_STEP) IN
         /\ DoSetZoom(surface, z)
         /\ IF surface = None
            THEN UNCHANGED <<target_point, anchor_point, redraw_queued>>
            ELSE /\ target_point' = SmallTarget(z)
                 /\ anchor_point' = SmallAnchor(z)
                 /\ redraw_queued' = SmallQueued(z)
         /\ UNCHANGED <<file_location, surface, in_dragtouch, in_zoomtouch,
                        zoomtouch_scale>>
         /\ Step("zoom_out", << >>, surface = None)

\* The body of zoom_to_fit on surface s; __draw_cb runs it too.
ZoomToFit(s) ==
    /\ DoSetZoom(Some(s), FitZoom(s))
    /\ target_point' = Some(CenterTarget)
    /\ anchor_point' = Some(CenterAnchor(s))
    /\ redraw_queued' = TRUE

\* zoom_to_fit: with no surface get_width raises before anything is set.
zoom_to_fit ==
    IF surface = None
    THEN /\ UNCHANGED <<widget, redraw_queued>>
         /\ Step("zoom_to_fit", << >>, TRUE)
    ELSE /\ ZoomToFit(Val(surface))
         /\ UNCHANGED <<file_location, surface, in_dragtouch, in_zoomtouch,
                        zoomtouch_scale>>
         /\ Step("zoom_to_fit", << >>, FALSE)

zoom_original ==
    /\ DoSetZoom(surface, R(1))
    /\ IF surface = None
       THEN UNCHANGED <<target_point, anchor_point, redraw_queued>>
       ELSE /\ target_point' = SmallTarget(R(1))
            /\ anchor_point' = SmallAnchor(R(1))
            /\ redraw_queued' = SmallQueued(R(1))
    /\ UNCHANGED <<file_location, surface, in_dragtouch, in_zoomtouch,
                   zoomtouch_scale>>
    /\ Step("zoom_original", << >>, surface = None)

\* A touch position as a point.
Point(c) == <<R(c[1]), R(c[2])>>

\* A touch position relative to the parent's allocation.
Relative(c) == <<R(c[1] - alloc.x), R(c[2] - alloc.y)>>

\* The anchor computation of start_dragtouch and start_zoomtouch raises
\* TypeError on a None anchor, zoom or target point and ZeroDivisionError
\* on a zero zoom; the anchor then keeps its value and no redraw is queued.
AnchorRaises ==
    \/ anchor_point = None
    \/ zoom = None
    \/ target_point = None
    \/ Val(zoom) = R(0)

\* The body of start_dragtouch(coords); update_dragtouch runs it too.
StartDragtouch(c) ==
    /\ in_dragtouch' = TRUE
    /\ target_point' = Some(Point(c))
    /\ IF AnchorRaises
       THEN UNCHANGED <<anchor_point, redraw_queued>>
       ELSE /\ anchor_point' = Some(NewAnchor(Val(target_point),
                                   Val(anchor_point), Val(zoom), Point(c)))
            /\ redraw_queued' = TRUE
    /\ UNCHANGED <<file_location, surface, zoom, in_zoomtouch,
                   zoomtouch_scale, size_request>>

start_dragtouch ==
    \E c \in Coords :
        /\ StartDragtouch(c)
        /\ Step("start_dragtouch", <<c>>, AnchorRaises)

\* An update_dragtouch that never restarts the drag.
update_dragtouch_no_restart ==
    \E c \in Coords :
        /\ target_point' = Some(Point(c))
        /\ redraw_queued' = TRUE
        /\ UNCHANGED <<file_location, surface, zoom, anchor_point,
                       in_dragtouch, in_zoomtouch, zoomtouch_scale,
                       size_request>>
        /\ Step("update_dragtouch", <<c>>, FALSE)

update_dragtouch ==
    \E c \in Coords :
        IF ~in_dragtouch
        THEN /\ StartDragtouch(c)
             /\ Step("update_dragtouch", <<c>>, AnchorRaises)
        ELSE /\ target_point' = Some(Point(c))
             /\ redraw_queued' = TRUE
             /\ UNCHANGED <<file_location, surface, zoom, anchor_point,
                            in_dragtouch, in_zoomtouch, zoomtouch_scale,
                            size_request>>
             /\ Step("update_dragtouch", <<c>>, FALSE)

\* _center_if_small raises with no surface (AttributeError) or no zoom
\* (TypeError).
CenterRaises == surface = None \/ zoom = None

\* finish_dragtouch(coords) does not read coords.
finish_dragtouch ==
    /\ in_dragtouch' = FALSE
    /\ IF CenterRaises
       THEN UNCHANGED <<target_point, anchor_point, redraw_queued>>
       ELSE /\ target_point' = SmallTarget(Val(zoom))
            /\ anchor_point' = SmallAnchor(Val(zoom))
            /\ redraw_queued' = SmallQueued(Val(zoom))
    /\ UNCHANGED <<file_location, surface, zoom, in_zoomtouch,
                   zoomtouch_scale, size_request>>
    /\ Step("finish_dragtouch", << >>, CenterRaises)

start_zoomtouch ==
    \E c \in Coords :
        /\ in_zoomtouch' = TRUE
        /\ zoomtouch_scale' = R(1)
        /\ in_dragtouch' = FALSE
        /\ target_point' = Some(Relative(c))
        /\ IF AnchorRaises
           THEN UNCHANGED <<anchor_point, redraw_queued>>
           ELSE /\ anchor_point' = Some(NewAnchor(Val(target_point),
                                       Val(anchor_point), Val(zoom),
                                       Relative(c)))
                /\ redraw_queued' = TRUE
        /\ UNCHANGED <<file_location, surface, zoom, size_request>>
        /\ Step("start_zoomtouch", <<c>>, AnchorRaises)

\* An update_zoomtouch that applies the scale to the zoom at once.
update_zoomtouch_committing ==
    \E c \in Coords, scale \in Scales :
        /\ zoomtouch_scale' = scale
        /\ target_point' = Some(Relative(c))
        /\ redraw_queued' = TRUE
        /\ zoom' = IF zoom = None THEN zoom ELSE Some(RMul(Val(zoom), scale))
        /\ UNCHANGED <<file_location, surface, anchor_point,
                       in_dragtouch, in_zoomtouch, size_request>>
        /\ Step("update_zoomtouch", <<c, scale>>, FALSE)

update_zoomtouch ==
    \E c \in Coords, scale \in Scales :
        /\ zoomtouch_scale' = scale
        /\ target_point' = Some(Relative(c))
        /\ redraw_queued' = TRUE
        /\ UNCHANGED <<file_location, surface, zoom, anchor_point,
                       in_dragtouch, in_zoomtouch, size_request>>
        /\ Step("update_zoomtouch", <<c, scale>>, FALSE)

\* finish_zoomtouch: with a None zoom the product raises TypeError before
\* the pending scale is reset; with no surface _do_set_zoom raises after the
\* zoom is assigned.
finish_zoomtouch ==
    /\ in_zoomtouch' = FALSE
    /\ IF zoom = None
       THEN /\ UNCHANGED <<zoom, zoomtouch_scale, size_request, target_point,
                           anchor_point, redraw_queued>>
            /\ Step("finish_zoomtouch", << >>, TRUE)
       ELSE LET z == Restrict(RMul(Val(zoom), zoomtouch_scale)) IN
            /\ zoomtouch_scale' = R(1)
            /\ DoSetZoom(surface, z)
            /\ IF surface = None
               THEN UNCHANGED <<target_point, anchor_point, redraw_queued>>
               ELSE /\ target_point' = SmallTarget(z)
                    /\ anchor_point' = SmallAnchor(z)
                    /\ redraw_queued' = SmallQueued(z)
            /\ Step("finish_zoomtouch", << >>, surface = None)
    /\ UNCHANGED <<file_location, surface, in_dragtouch>>

\* The body of the two rotations: with no surface cairo.Context(None) raises
\* before anything is set; with no anchor the surface is already replaced
\* when the subscript raises.
Rotate(op, direction) ==
    IF surface = None
    THEN /\ UNCHANGED <<widget, redraw_queued>>
         /\ Step(op, << >>, TRUE)
    ELSE LET s == RotateSurface(Val(surface), direction) IN
         /\ surface' = Some(s)
         /\ IF anchor_point = None
            THEN UNCHANGED <<anchor_point, redraw_queued>>
            ELSE /\ anchor_point' =
                        Some(IF direction = 1
                             THEN ClockwiseAnchor(s, Val(anchor_point))
                             ELSE AnticlockwiseAnchor(s, Val(anchor_point)))
                 /\ redraw_queued' = TRUE
         /\ UNCHANGED <<file_location, zoom, target_point, in_dragtouch,
                        in_zoomtouch, zoomtouch_scale, size_request>>
         /\ Step(op, << >>, anchor_point = None)

rotate_anticlockwise == Rotate("rotate_anticlockwise", -1)

rotate_clockwise == Rotate("rotate_clockwise", 1)

\* __draw_cb: loads the surface if there is none, runs zoom_to_fit if the
\* zoom is None, defaults the two points, and paints.  It serves the queued
\* redraw; zoom_to_fit queues another.
draw_cb ==
    IF surface = None /\ file_location = None
    THEN /\ redraw_queued' = FALSE
         /\ UNCHANGED widget
         /\ Step("draw", << >>, FALSE)
    ELSE LET s == IF surface = None THEN SurfaceFromFile(Val(file_location))
                  ELSE Val(surface) IN
         /\ surface' = Some(s)
         /\ IF zoom = None
            THEN ZoomToFit(s)
            ELSE /\ target_point' = IF target_point = None
                                    THEN Some(CenterTarget) ELSE target_point
                 /\ anchor_point' = IF anchor_point = None
                                    THEN Some(CenterAnchor(s)) ELSE anchor_point
                 /\ redraw_queued' = FALSE
                 /\ UNCHANGED <<zoom, size_request>>
         /\ UNCHANGED <<file_location, in_dragtouch, in_zoomtouch,
                        zoomtouch_scale>>
         /\ Step("draw", << >>, FALSE)

Next ==
    \/ set_file_location
    \/ set_zoom
    \/ zoom_in
    \/ zoom_out
    \/ zoom_to_fit
    \/ zoom_original
    \/ start_dragtouch
    \/ update_dragtouch
    \/ finish_dragtouch
    \/ start_zoomtouch
    \/ update_zoomtouch
    \/ finish_zoomtouch
    \/ rotate_anticlockwise
    \/ rotate_clockwise
    \/ draw_cb

Spec == Init /\ [][Next]_vars

----------------------------------------------------------------------------
(* What __draw_cb paints (lines 307-312), defined once the zoom and the    *)
(* two points are set.                                                     *)

\* zoom_absolute for zoom z and pending scale sc.
ZoomAbsolute(z, sc) == RMul(z, sc)

\* The screen position of the point p of the surface under target point t,
\* anchor point a and absolute zoom za:
\* translate(t), scale(za), translate(-a).
ScreenPoint(t, a, za, p) ==
    <<RAdd(t[1], RMul(za, RSub(p[1], a[1]))),
      RAdd(t[2], RMul(za, RSub(p[2], a[2])))>>

\* The rendered top left corner of the image.
TopLeft(t, a, za) == ScreenPoint(t, a, za, <<R(0), R(0)>>)

\* The transform is defined.
Drawable == zoom # None /\ target_point # None /\ anchor_point # None

\* An image is loaded and the transform is defined, as after the first draw
\* with a file location.
Displayed == surface # None /\ Drawable

----------------------------------------------------------------------------
(* The claims. *)

BelowMin(z) == RLt(z, ZOOM_MIN)
AboveMax(z) == RLt(ZOOM_MAX, z)

\* C1: set_zoom(z) with z < ZOOM_MIN or z > ZOOM_MAX changes nothing of the
\* widget (zoom, both points, both flags, pending scale, size request) and
\* raises nothing; with ZOOM_MIN <= z <= ZOOM_MAX the zoom becomes exactly z.
C1_SetZoomRange ==
    [][ last'.op = "set_zoom" =>
          LET z == last'.arg[1] IN
          IF BelowMin(z) \/ AboveMax(z)
          THEN /\ UNCHANGED <<zoom, anchor_point, target_point, in_dragtouch,
                              in_zoomtouch, zoomtouch_scale, size_request>>
               /\ ~last'.raised
          ELSE zoom' = Some(z) ]_vars

\* A set_zoom above ZOOM_MAX arrived with an image on display.
C1_Witness ==
    /\ last.op = "set_zoom"
    /\ AboveMax(last.arg[1])
    /\ surface # None
    /\ zoom # None

\* C2 as stated: once an image is loaded and the zoom set, the zoom is
\* within [ZOOM_MIN, ZOOM_MAX].
C2_ZoomAlwaysInRange ==
    (surface # None /\ zoom # None) =>
        ~BelowMin(Val(zoom)) /\ ~AboveMax(Val(zoom))

\* C2 amended: no zoom is above ZOOM_MAX, and a call assigns a zoom below
\* ZOOM_MIN only if it is zoom_to_fit (called directly or by the draw
\* callback), the zoom then being at most 1.
C2_ZoomRangeButFit ==
    [][ zoom' # None =>
          /\ ~AboveMax(Val(zoom'))
          /\ (zoom' # zoom /\ BelowMin(Val(zoom'))) =>
                /\ last'.op \in {"zoom_to_fit", "draw"}
                /\ RLe(Val(zoom'), R(1)) ]_vars

\* zoom_to_fit left a zoom below ZOOM_MIN.
C2_Witness ==
    /\ last.op = "zoom_to_fit"
    /\ zoom # None
    /\ BelowMin(Val(zoom))

\* C3 as stated, for an image on display: update_zoomtouch while no
\* pinch-zoom is active leaves the pending scale, both points and the zoom
\* unchanged.
C3_StaleUpdateIgnored ==
    [][ (last'.op = "update_zoomtouch" /\ ~in_zoomtouch /\ Displayed) =>
          UNCHANGED <<zoomtouch_scale, target_point, anchor_point, zoom>> ]_vars

\* C4: an update_zoomtouch during a pinch-zoom sets the pending scale and
\* the target point and nothing else of the widget, the anchor still being
\* drawn at the target point; of the three pinch callbacks only
\* finish_zoomtouch changes the zoom.
C4_PinchUpdateFrame ==
    [][ /\ (last'.op = "update_zoomtouch" /\ in_zoomtouch) =>
              /\ zoomtouch_scale' = last'.arg[2]
              /\ target_point' = Some(Relative(last'.arg[1]))
              /\ UNCHANGED <<zoom, anchor_point, in_dragtouch, in_zoomtouch,
                             surface, file_location, size_request>>
              /\ Drawable =>
                    ScreenPoint(Val(target_point'), Val(anchor_point'),
                                ZoomAbsolute(Val(zoom'), zoomtouch_scale'),
                                Val(anchor_point)) = Val(target_point')
        /\ (last'.op \in {"start_zoomtouch", "update_zoomtouch"}) =>
              zoom' = zoom ]_vars

\* A pinch on a displayed image was updated with a scale other than 1.
C4_Witness ==
    /\ last.op = "update_zoomtouch"
    /\ in_zoomtouch
    /\ Drawable
    /\ surface # None
    /\ Val(anchor_point) # CenterAnchor(Val(surface))
    /\ zoomtouch_scale # R(1)

Inside(s, a) ==
    /\ RLe(R(0), a[1]) /\ RLe(a[1], R(s.w))
    /\ RLe(R(0), a[2]) /\ RLe(a[2], R(s.h))

\* C5: a rotation of a W x H surface with anchor (ax, ay) yields an H x W
\* surface whose anchor is (H - ay, ax) clockwise and (ay, W - ax)
\* anticlockwise, the place _rotate_surface paints (ax, ay) at; an anchor
\* within the bounds stays within them; zoom, target point, pending scale
\* and both flags are unchanged.
C5_RotationKeepsPixel ==
    [][ (last'.op \in {"rotate_clockwise", "rotate_anticlockwise"}
            /\ surface # None /\ anchor_point # None) =>
          LET s == Val(surface)
              a == Val(anchor_point)
              d == IF last'.op = "rotate_clockwise" THEN 1 ELSE -1
          IN  /\ Val(surface').w = s.h
              /\ Val(surface').h = s.w
              /\ Val(anchor_point') =
                    IF d = 1 THEN <<RSub(R(s.h), a[2]), a[1]>>
                    ELSE <<a[2], RSub(R(s.w), a[1])>>
              /\ Val(anchor_point') = RotatePoint(s, d, a)
              /\ Inside(s, a) => Inside(Val(surface'), Val(anchor_point'))
              /\ UNCHANGED <<zoom, target_point, zoomtouch_scale,
                             in_dragtouch, in_zoomtouch>> ]_vars

\* An image was rotated clockwise during a drag.
C5_Witness ==
    /\ last.op = "rotate_clockwise"
    /\ ~last.raised
    /\ in_dragtouch
    /\ anchor_point # None

\* C6 as stated: after a draw the surface on display is the image of the
\* file location last set.
C6_DrawShowsFile ==
    (last.op = "draw" /\ file_location # None) =>
        (surface # None /\ Val(surface).src = Val(file_location))

\* C7 as stated, for an image on display: finish_zoomtouch sets the zoom to zoom * pending scale
\* restricted to [ZOOM_MIN, ZOOM_MAX], resets the pending scale to 1 and
\* clears _in_zoomtouch; and whenever _in_zoomtouch is false the pending
\* scale is 1 (the drawn zoom is the committed zoom).
C7_FinishCommits ==
    [][ Displayed =>
          /\ last'.op = "finish_zoomtouch" =>
                /\ LET z == RMul(Val(zoom), zoomtouch_scale) IN
                   zoom' = Some(IF BelowMin(z) THEN ZOOM_MIN
                                ELSE IF AboveMax(z) THEN ZOOM_MAX ELSE z)
                /\ zoomtouch_scale' = R(1)
                /\ ~in_zoomtouch'
          /\ ~in_zoomtouch' => zoomtouch_scale' = R(1) ]_vars

\* C8 as stated, for an image on display: the two gesture flags are never
\* both true.
C8_GesturesExclusive == Displayed => ~(in_dragtouch /\ in_zoomtouch)

\* C9: update_dragtouch(coords) with no drag active makes the step
\* start_dragtouch(coords) makes: _in_dragtouch becomes true, the target
\* point becomes coords and the anchor is re-computed from the previous
\* target point (unless that computation raises, as in start_dragtouch);
\* with a drag active it sets the target point to coords and changes no
\* other field.
C9_UpdateDragRestarts ==
    [][ last'.op = "update_dragtouch" =>
          LET c == last'.arg[1] IN
          IF ~in_dragtouch
          THEN /\ StartDragtouch(c)
               /\ in_dragtouch'
               /\ target_point' = Some(<<R(c[1]), R(c[2])>>)
               /\ last'.raised = AnchorRaises
               /\ ~last'.raised =>
                     anchor_point' = Some(NewAnchor(Val(target_point),
                                          Val(anchor_point), Val(zoom),
                                          <<R(c[1]), R(c[2])>>))
          ELSE /\ target_point' = Some(<<R(c[1]), R(c[2])>>)
               /\ ~last'.raised
               /\ UNCHANGED <<anchor_point, zoom, zoomtouch_scale,
                              in_dragtouch, in_zoomtouch, surface,
                              file_location, size_request>> ]_vars

\* With an image on display and a pinch-zoom begun, an update_dragtouch
\* found no drag active and restarted it.
C9_Witness ==
    /\ last.op = "update_dragtouch"
    /\ ~last.raised
    /\ steps = 4
    /\ surface # None
    /\ in_zoomtouch
    /\ in_dragtouch

\* The distance between two rationals is below a third.
Near(a, b, eps) == RLt(RSub(a, b), eps) /\ RLt(RSub(b, a), eps)

\* C10 as stated, with no stale pinch update before the call (a pending
\* scale other than 1 comes from a pinch-zoom in progress): start_dragtouch
\* and start_zoomtouch move the target point
\* to the touch position and leave the rendered top left corner of the
\* image where it was, up to less than one image pixel per axis.
C10_StartKeepsImage ==
    [][ (last'.op \in {"start_dragtouch", "start_zoomtouch"}
            /\ ~last'.raised
            /\ (zoomtouch_scale # R(1) => in_zoomtouch)) =>
          LET c == last'.arg[1]
              za == ZoomAbsolute(Val(zoom'), zoomtouch_scale')
              before == TopLeft(Val(target_point), Val(anchor_point),
                                ZoomAbsolute(Val(zoom), zoomtouch_scale))
              after == TopLeft(Val(target_point'), Val(anchor_point'), za)
          IN  /\ target_point' =
                    Some(IF last'.op = "start_dragtouch"
                         THEN <<R(c[1]), R(c[2])>>
                         ELSE <<R(c[1] - alloc.x), R(c[2] - alloc.y)>>)
              /\ Near(after[1], before[1], za)
              /\ Near(after[2], before[2], za) ]_vars

\* The step ran the body of zoom_to_fit: a zoom_to_fit call with a surface,
\* or a draw that found the zoom None.
FitStep ==
    \/ last'.op = "zoom_to_fit" /\ surface # None
    \/ last'.op = "draw" /\ zoom = None /\ surface' # None

\* The zoom of C11 for a w x h surface: 1 if it fits the allocation, else
\* the smaller of the two ratios.
BestFit(w, h) ==
    IF alloc.width >= w /\ alloc.height >= h THEN R(1)
    ELSE IF alloc.width * h <= alloc.height * w
         THEN Norm(alloc.width, w) ELSE Norm(alloc.height, h)

\* The zoom and the fit of C11 after the step.
FitsAfter ==
    LET s == Val(surface')
        z == Val(zoom')
    IN  /\ z = BestFit(s.w, s.h)
        /\ RLe(RMul(R(s.w), z), R(alloc.width))
        /\ RLe(RMul(R(s.h), z), R(alloc.height))

\* x is n / 2, or n / 2 rounded down to a whole number where int / int
\* floors.
HalfOrFloor(x, n) ==
    IF division = "true" THEN x = Norm(n, 2)
    ELSE x[2] = 1 /\ 2 * x[1] <= n /\ n < 2 * x[1] + 2

Above(a, b) == a[1] * b[2] > b[1] * a[2]
Below(a, b) == a[1] * b[2] < b[1] * a[2]

\* C12: with a zoom set, zoom_in adds exactly ZOOM_STEP to it when
\* zoom + ZOOM_STEP < ZOOM_MAX and otherwise changes nothing; zoom_out
\* subtracts exactly ZOOM_STEP when zoom - ZOOM_STEP > ZOOM_MIN and otherwise
\* changes nothing, the two points included; a zoom within the limits that
\* either call changes ends strictly between ZOOM_MIN and ZOOM_MAX.
C12_ZoomSteps ==
    [][ (last'.op \in {"zoom_in", "zoom_out"} /\ zoom # None) =>
          LET z == Val(zoom)
              up == <<z[1] * ZOOM_STEP[2] + ZOOM_STEP[1] * z[2],
                      z[2] * ZOOM_STEP[2]>>
              down == <<z[1] * ZOOM_STEP[2] - ZOOM_STEP[1] * z[2],
                        z[2] * ZOOM_STEP[2]>>
          IN  /\ last'.op = "zoom_in" =>
                    IF Below(up, ZOOM_MAX)
                    THEN Val(zoom') = Norm(up[1], up[2])
                    ELSE UNCHANGED <<widget, redraw_queued>> /\ ~last'.raised
              /\ last'.op = "zoom_out" =>
                    IF Above(down, ZOOM_MIN)
                    THEN Val(zoom') = Norm(down[1], down[2])
                    ELSE UNCHANGED <<widget, redraw_queued>> /\ ~last'.raised
              /\ (~BelowMin(z) /\ ~AboveMax(z) /\ zoom' # zoom) =>
                    /\ Above(Val(zoom'), ZOOM_MIN)
                    /\ Below(Val(zoom'), ZOOM_MAX) ]_vars

\* With an image on display a zoom_in was refused one step below ZOOM_MAX.
C12_Witness ==
    /\ last.op = "zoom_in"
    /\ ~last.raised
    /\ surface # None
    /\ zoom = Some(<<79, 20>>)

====
